---- MODULE Spec2Model ----
(***************************************************************************)
(* Model of executor/executor_linux.h: the coverage engine (cover_open,    *)
(* cover_enable, cover_reset, cover_collect) working on the file /dev/cov, *)
(* the thread-local current_cover slot, the termination primitive doexit,  *)
(* the syscall executor execute_syscall, the remote handle codec           *)
(* kcov_remote_handle, detect_kernel_bitness and the layout of             *)
(* kcov_remote_arg.                                                        *)
(*                                                                         *)
(* Five specifications share the variables:                                *)
(*   Spec       the coverage engine, run by several threads, for every     *)
(*              value of the coverage flag and of the kernel bitness;      *)
(*   SpecExit   the coverage engine with doexit invoked at any point;      *)
(*   SpecExec   execute_syscall applied to drawn descriptors and outcomes; *)
(*   SpecCodec  kcov_remote_handle applied to drawn 64-bit arguments;      *)
(*   SpecBitness  detect_kernel_bitness applied to drawn environments.     *)
(***************************************************************************)
EXTENDS Integers, Sequences, FiniteSets, TLC

(***************************************************************************)
(* Bounds of the model.                                                    *)
(***************************************************************************)
\* records the external writer may append to /dev/cov
MaxRecords == 1
\* values the first machine word of /dev/cov may take: 0..MaxWord
MaxWord == 1
\* the busy loop's counter i wraps at LoopMod (unsigned wrap-around, reduced)
LoopMod == 2

Threads == {"t1", "t2"}
Covers == {"c1", "c2"}
\* Coverage Context: one per thread that participates in coverage collection
CoverOf == [t \in Threads |-> IF t = "t1" THEN "c1" ELSE "c2"]
\* the null cover_t pointer
NoCover == "null"

(***************************************************************************)
(* Program constants.                                                      *)
(***************************************************************************)
\* cover_collect: cov->size = filesize / 32
RecordBytes == 32
\* cover_open: cover_size = 640000
CoverSizeInit == 640000
\* size_t mmap_alloc_size = 30000
MmapAllocInit == 30000
\* sizeof(int): cov->data is an int*
SizeofInt == 4

VARIABLES
  flag_coverage,     \* whole-run coverage flag
  is_kernel_64_bit,  \* set by os_init from detect_kernel_bitness
  cover_size,        \* global int cover_size
  mmap_alloc_size,   \* global size_t mmap_alloc_size
  devfile,           \* the file /dev/cov: [exists, bytes, word0]
  cov,               \* cover_t objects: [data, data_end, size]; maplen: the mapping's length
  current_cover,     \* __thread cover_t* current_cover, per thread
  proc,              \* the process: running, exited, failed, crashed
  tpc,               \* per thread: run, loop (doexit's busy loop), exitf
  loop_i,            \* doexit's volatile unsigned i, per thread
  lastOp,            \* history: the last operation, its arguments and outcome
  traced,            \* history: records appended since the last reset of a context
  owner,             \* history: the thread that opened a context
  lastEnabled,       \* history: the context of a thread's last successful primary enable
  exec,              \* SpecExec: descriptor, arguments, outcome and result of execute_syscall
  codec,             \* SpecCodec: arguments and result of kcov_remote_handle
  detect             \* SpecBitness: environment and result of detect_kernel_bitness

covVars == <<flag_coverage, is_kernel_64_bit, cover_size, mmap_alloc_size, devfile,
             cov, current_cover, proc, tpc, loop_i, lastOp, traced, owner,
             lastEnabled>>
vars == <<flag_coverage, is_kernel_64_bit, cover_size, mmap_alloc_size, devfile,
          cov, current_cover, proc, tpc, loop_i, lastOp, traced, owner,
          lastEnabled, exec, codec, detect>>

(***************************************************************************)
(* Outcomes of undefined behaviour: the build either faults or goes on.    *)
(***************************************************************************)
UBOutcomes == {"crash", "continue"}

NoOp == [op |-> "none", t |-> "none", c |-> NoCover, target |-> NoCover,
         extra |-> FALSE, out |-> "none", msg |-> "", preWord |-> 0,
         rejected |-> FALSE, layout |-> "none", registered |-> {}]

\* The history record of an operation op by thread t on context c (target: the
\* context it resolved to) that ended as out.
Op(op, t, c, target, extra, out, msg) ==
  [NoOp EXCEPT !.op = op, !.t = t, !.c = c, !.target = target, !.extra = extra,
               !.out = out, !.msg = msg]

NoExec == [stage |-> "idle"]
NoCodec == [stage |-> "idle"]
NoDetect == [stage |-> "idle"]

\* A thread executes program code only while the process lives and the thread
\* is neither inside doexit nor ended by exitf.
Running(t) == proc = "running" /\ tpc[t] = "run"

\* fail(msg): the fatal path, the whole process aborts with a diagnostic.
\* exitf(msg): the soft path, reports and ends the calling thread's attempt.
\* Neither returns to its caller.
Outcome(t, out) ==
  /\ proc' = CASE out = "fail" -> "failed"
               [] out = "crash" -> "crashed"
               [] OTHER -> proc
  /\ tpc' = IF out = "exitf" THEN [tpc EXCEPT ![t] = "exitf"] ELSE tpc

\* The file after the external program or the kernel appended app records and
\* left w in the file's first word.
Appended(f, app, w) ==
  IF app = 0 THEN f
  ELSE [exists |-> TRUE, bytes |-> f.bytes + app * RecordBytes, word0 |-> w]

CanAppend(app) == devfile.bytes \div RecordBytes + app <= MaxRecords

\* system("/root/cov"): an external program; it returns rc and may have
\* appended a record to the file, leaving w in the file's first word.
SystemEnvs ==
  {[rc |-> rc, app |-> 0, w |-> 0] : rc \in {0, 1}}
  \cup {[rc |-> rc, app |-> 1, w |-> w] : rc \in {0, 1}, w \in 0..MaxWord}

\* The coverage engine before any of its operations ran.
InitEngine ==
  /\ cover_size = 0
  /\ mmap_alloc_size = MmapAllocInit
  /\ devfile \in {[exists |-> FALSE, bytes |-> 0, word0 |-> 0],
                  [exists |-> TRUE, bytes |-> 0, word0 |-> 0]}
  /\ cov = [c \in Covers |-> [data |-> "unmapped", data_end |-> 0, size |-> 0, maplen |-> 0]]
  /\ current_cover = [t \in Threads |-> NoCover]
  /\ proc = "running"
  /\ tpc = [t \in Threads |-> "run"]
  /\ loop_i = [t \in Threads |-> 0]
  /\ lastOp = NoOp
  /\ traced = [c \in Covers |-> -1]
  /\ owner = [c \in Covers |-> "none"]
  /\ lastEnabled = [t \in Threads |-> NoCover]

Init ==
  /\ flag_coverage \in BOOLEAN
  /\ is_kernel_64_bit \in BOOLEAN
  /\ InitEngine
  /\ exec = NoExec
  /\ codec = NoCodec
  /\ detect = NoDetect

\* History: app more records were written; a context counts them once it has
\* been reset.
Count(tr, app) == [c \in Covers |-> IF tr[c] >= 0 THEN tr[c] + app ELSE tr[c]]

(***************************************************************************)
(* cover_open                                                              *)
(***************************************************************************)
\* How far cover_open gets and how it ends.  create: fopen("/dev/cov", "a+")
\* creates the missing file; sys: the run of /root/cov; mmapok: mmap succeeds;
\* ub: the outcome of undefined behaviour (fclose(NULL), the read through
\* MAP_FAILED).  Stages: 0 ended at fclose, 1 at dup2, 2 at system, 3 after
\* mmap, 4 returned.
open_result(create, sys, mmapok, ub) ==
  LET f1 == IF ~devfile.exists /\ create
            THEN [devfile EXCEPT !.exists = TRUE] ELSE devfile
      f2 == Appended(f1, sys.app, sys.w)
  IN  IF ~devfile.exists /\ ~create /\ ub = "crash"
        THEN [stage |-> 0, out |-> "crash", msg |-> "", file |-> devfile]
      ELSE IF ~f1.exists
        THEN [stage |-> 1, out |-> "fail", msg |-> "filed to dup2 cover fd", file |-> f1]
      ELSE IF sys.rc # 0
        THEN [stage |-> 2, out |-> "fail", msg |-> "cover init trace write failed",
              file |-> f2]
      ELSE IF ~mmapok
        THEN IF ub = "crash"
             THEN [stage |-> 3, out |-> "crash", msg |-> "", file |-> f2]
             ELSE [stage |-> 3, out |-> "fail", msg |-> "cover mmap failed", file |-> f2]
      ELSE IF f2.bytes = 0
        \* cov->data[i] beyond the end of the mapped file: SIGBUS
        THEN [stage |-> 3, out |-> "crash", msg |-> "", file |-> f2]
      ELSE [stage |-> 4, out |-> "returned", msg |-> "", file |-> f2]

cover_open(t, c, extra, create, sys, mmapok, ub) ==
  /\ Running(t)
  /\ CanAppend(sys.app)
  /\ LET r == open_result(create, sys, mmapok, ub)
         size1 == IF r.stage >= 2 THEN CoverSizeInit ELSE cover_size
     IN  /\ devfile' = r.file
         /\ cover_size' = size1
         /\ mmap_alloc_size' = IF r.stage >= 3
                                THEN size1 * (IF is_kernel_64_bit THEN 8 ELSE 4)
                                ELSE mmap_alloc_size
         /\ cov' = IF r.stage < 3 THEN cov
                   ELSE [cov EXCEPT ![c].data = IF mmapok THEN "mapped" ELSE "MAP_FAILED",
                                    ![c].data_end = IF r.stage = 4
                                                    THEN size1 * SizeofInt
                                                    ELSE cov[c].data_end,
                                    \* mmap(NULL, (cover_size), ...)
                                    ![c].maplen = IF mmapok THEN size1 ELSE 0]
         /\ owner' = IF r.stage = 4 THEN [owner EXCEPT ![c] = t] ELSE owner
         /\ traced' = IF r.stage >= 2 THEN Count(traced, sys.app) ELSE traced
         /\ Outcome(t, r.out)
         /\ lastOp' = Op("open", t, c, c, FALSE, r.out, r.msg)
  /\ UNCHANGED <<exec, codec, detect, flag_coverage, is_kernel_64_bit, current_cover, loop_i, lastEnabled>>

(***************************************************************************)
(* cover_enable / enable_remote_cover                                      *)
(***************************************************************************)
KCOV_TRACE_PC == 0
KCOV_TRACE_CMP == 1

\* enable_remote_cover<kernel_u64_t> failing through the fatal path.
enable_remote_cover_fatal(kernel_u64_t, sys) ==
  IF sys.rc # 0
  THEN [out |-> "fail", msg |-> "remote cover enable write trace failed",
        layout |-> kernel_u64_t, registered |-> {}]
  ELSE [out |-> "returned", msg |-> "", layout |-> kernel_u64_t, registered |-> {}]

\* enable_remote_cover<kernel_u64_t>: runs /root/cov and takes the soft path
\* when it fails.  The construction of kcov_remote_arg<kernel_u64_t, 1> and the
\* ioctl that passes it are commented out: no handle is registered with the
\* device (registered: the handles the device received).
enable_remote_cover(kernel_u64_t, sys) ==
  IF sys.rc # 0
  THEN [out |-> "exitf", msg |-> "remote cover enable write trace failed",
        layout |-> kernel_u64_t, registered |-> {}]
  ELSE [out |-> "returned", msg |-> "", layout |-> kernel_u64_t, registered |-> {}]

\* cover_enable registering an extra context as the active one too.
enable_result_extra_registers(t, c, extra, sys) ==
  IF sys.rc # 0
  THEN [out |-> "exitf", msg |-> "cover enable write trace failed",
        slot |-> current_cover[t], layout |-> "none", registered |-> {}]
  ELSE [out |-> "returned", msg |-> "", slot |-> c, layout |-> "none",
        registered |-> {}]

\* cover_enable instantiating enable_remote_cover<uint64_aligned64> on every
\* kernel.
enable_result_always_wide(t, c, extra, sys) ==
  IF ~extra
  THEN IF sys.rc # 0
       THEN [out |-> "exitf", msg |-> "cover enable write trace failed",
             slot |-> current_cover[t], layout |-> "none", registered |-> {}]
       ELSE [out |-> "returned", msg |-> "", slot |-> c, layout |-> "none",
             registered |-> {}]
  ELSE LET r == enable_remote_cover("uint64_aligned64", sys)
       IN  [out |-> r.out, msg |-> r.msg, slot |-> current_cover[t],
            layout |-> r.layout, registered |-> r.registered]

\* The outcome of cover_enable, the calling thread's slot after it, and for an
\* extra context the instantiation of enable_remote_cover that ran.
enable_result(t, c, extra, sys) ==
  IF ~extra
  THEN IF sys.rc # 0
       THEN [out |-> "exitf", msg |-> "cover enable write trace failed",
             slot |-> current_cover[t], layout |-> "none", registered |-> {}]
       ELSE [out |-> "returned", msg |-> "", slot |-> c, layout |-> "none",
             registered |-> {}]
  ELSE LET r == IF is_kernel_64_bit
                THEN enable_remote_cover("uint64_aligned64", sys)
                ELSE enable_remote_cover("uint64_aligned32", sys)
       IN  [out |-> r.out, msg |-> r.msg, slot |-> current_cover[t],
            layout |-> r.layout, registered |-> r.registered]

cover_enable(t, c, collect_comps, extra, sys) ==
  /\ Running(t)
  /\ CanAppend(sys.app)
  /\ LET kcov_mode == IF collect_comps THEN KCOV_TRACE_CMP ELSE KCOV_TRACE_PC
         r == enable_result(t, c, extra, sys)
     IN  /\ current_cover' = [current_cover EXCEPT ![t] = r.slot]
         /\ devfile' = Appended(devfile, sys.app, sys.w)
         /\ traced' = Count(traced, sys.app)
         /\ lastEnabled' = IF ~extra /\ r.out = "returned"
                            THEN [lastEnabled EXCEPT ![t] = c] ELSE lastEnabled
         /\ Outcome(t, r.out)
         /\ lastOp' = [Op("enable", t, c, c, extra, r.out, r.msg) EXCEPT
                         !.rejected = sys.rc # 0, !.layout = r.layout,
                         !.registered = r.registered]
  /\ UNCHANGED <<exec, codec, detect, flag_coverage, is_kernel_64_bit, cover_size, mmap_alloc_size, cov,
                 loop_i, owner>>

(***************************************************************************)
(* cover_reset                                                             *)
(***************************************************************************)
\* cover_reset without its store.
reset_result_nostore(t, c, ub) ==
  LET target == IF c = NoCover THEN current_cover[t] ELSE c IN
  IF ~flag_coverage
    THEN [out |-> "returned", msg |-> "", target |-> NoCover, word0 |-> devfile.word0,
          wrote |-> FALSE]
  ELSE IF target = NoCover
    THEN [out |-> "fail", msg |-> "cover_reset: current_cover == 0", target |-> NoCover,
          word0 |-> devfile.word0, wrote |-> FALSE]
  ELSE [out |-> "returned", msg |-> "", target |-> target, word0 |-> devfile.word0,
        wrote |-> FALSE]

\* cover_reset without its check of current_cover: the store goes through the
\* null context.
reset_result_nofail(t, c, ub) ==
  LET target == IF c = NoCover THEN current_cover[t] ELSE c IN
  IF ~flag_coverage
    THEN [out |-> "returned", msg |-> "", target |-> NoCover, word0 |-> devfile.word0,
          wrote |-> FALSE]
  ELSE IF target # NoCover /\ cov[target].data = "mapped"
    THEN [out |-> "returned", msg |-> "", target |-> target, word0 |-> 0, wrote |-> TRUE]
  ELSE [out |-> IF ub = "crash" THEN "crash" ELSE "returned", msg |-> "",
        target |-> target, word0 |-> devfile.word0, wrote |-> FALSE]

\* cover_reset without its check of flag_coverage.
reset_result_ignores_flag(t, c, ub) ==
  LET target == IF c = NoCover THEN current_cover[t] ELSE c IN
  IF target = NoCover
    THEN [out |-> "fail", msg |-> "cover_reset: current_cover == 0", target |-> NoCover,
          word0 |-> devfile.word0, wrote |-> FALSE]
  ELSE IF cov[target].data = "mapped"
    THEN [out |-> "returned", msg |-> "", target |-> target, word0 |-> 0, wrote |-> TRUE]
  ELSE [out |-> IF ub = "crash" THEN "crash" ELSE "returned", msg |-> "",
        target |-> target, word0 |-> devfile.word0, wrote |-> FALSE]

\* The outcome of cover_reset(c) by thread t, the context it resolved to and
\* the first word of the file after it.  The store *(uint64*)cov->data = 0
\* goes through the shared mapping of /dev/cov; through a context that was
\* never mapped it is undefined (ub).
reset_result(t, c, ub) ==
  LET target == IF c = NoCover THEN current_cover[t] ELSE c IN
  IF ~flag_coverage
    THEN [out |-> "returned", msg |-> "", target |-> NoCover, word0 |-> devfile.word0,
          wrote |-> FALSE]
  ELSE IF target = NoCover
    THEN [out |-> "fail", msg |-> "cover_reset: current_cover == 0", target |-> NoCover,
          word0 |-> devfile.word0, wrote |-> FALSE]
  ELSE IF cov[target].data = "mapped"
    THEN [out |-> "returned", msg |-> "", target |-> target, word0 |-> 0, wrote |-> TRUE]
  ELSE [out |-> IF ub = "crash" THEN "crash" ELSE "returned", msg |-> "",
        target |-> target, word0 |-> devfile.word0, wrote |-> FALSE]

cover_reset(t, c, ub) ==
  /\ Running(t)
  /\ LET r == reset_result(t, c, ub)
     IN  /\ devfile' = [devfile EXCEPT !.word0 = r.word0]
         /\ traced' = IF r.wrote THEN [traced EXCEPT ![r.target] = 0] ELSE traced
         /\ Outcome(t, r.out)
         /\ lastOp' = [Op("reset", t, c, r.target, FALSE, r.out, r.msg) EXCEPT
                         !.preWord = devfile.word0]
  /\ UNCHANGED <<exec, codec, detect, flag_coverage, is_kernel_64_bit, cover_size, mmap_alloc_size, cov,
                 current_cover, loop_i, owner, lastEnabled>>

(***************************************************************************)
(* cover_collect                                                           *)
(***************************************************************************)
\* fopenok: fopen("/dev/cov", "r") succeeds (it cannot when the file is
\* missing).  With fp == NULL, fseek and ftell are undefined: the build faults
\* or goes on with a garbage entry count.
collect_result(fopenok, ub, garbage) ==
  IF devfile.exists /\ fopenok
  THEN [out |-> "returned", msg |-> "", size |-> devfile.bytes \div RecordBytes]
  ELSE IF ub = "crash"
  THEN [out |-> "crash", msg |-> "coverage file not exist", size |-> 0]
  ELSE [out |-> "returned", msg |-> "coverage file not exist", size |-> garbage]

\* cover_collect that also zeroes the counter at the head of the buffer.
cover_collect_zeroes_counter(t, c, fopenok, ub, garbage) ==
  /\ Running(t)
  /\ LET r == collect_result(fopenok, ub, garbage)
     IN  /\ cov' = IF r.out = "returned" THEN [cov EXCEPT ![c].size = r.size] ELSE cov
         /\ devfile' = [devfile EXCEPT !.word0 = 0]
         /\ Outcome(t, r.out)
         /\ lastOp' = Op("collect", t, c, c, FALSE, r.out, r.msg)
  /\ UNCHANGED <<exec, codec, detect, flag_coverage, is_kernel_64_bit, cover_size,
                 mmap_alloc_size, current_cover, loop_i, traced, owner, lastEnabled>>

cover_collect(t, c, fopenok, ub, garbage) ==
  /\ Running(t)
  /\ LET r == collect_result(fopenok, ub, garbage)
     IN  /\ cov' = IF r.out = "returned" THEN [cov EXCEPT ![c].size = r.size] ELSE cov
         /\ Outcome(t, r.out)
         /\ lastOp' = Op("collect", t, c, c, FALSE, r.out, r.msg)
  /\ UNCHANGED <<exec, codec, detect, flag_coverage, is_kernel_64_bit, cover_size, mmap_alloc_size, devfile,
                 current_cover, loop_i, traced, owner, lastEnabled>>

(***************************************************************************)
(* cover_protect / cover_unprotect                                         *)
(***************************************************************************)
\* Both have empty bodies.
cover_protect(t, c) ==
  /\ Running(t)
  /\ lastOp' = Op("protect", t, c, c, FALSE, "returned", "")
  /\ UNCHANGED <<exec, codec, detect, flag_coverage, is_kernel_64_bit, cover_size,
                 mmap_alloc_size, devfile, cov, current_cover, proc, tpc, loop_i, traced,
                 owner, lastEnabled>>

cover_unprotect(t, c) ==
  /\ Running(t)
  /\ lastOp' = Op("unprotect", t, c, c, FALSE, "returned", "")
  /\ UNCHANGED <<exec, codec, detect, flag_coverage, is_kernel_64_bit, cover_size,
                 mmap_alloc_size, devfile, cov, current_cover, proc, tpc, loop_i, traced,
                 owner, lastEnabled>>

(***************************************************************************)
(* The external writer of /dev/cov                                         *)
(***************************************************************************)
\* A trace event: one more record in the file, w in its first word.
TraceEvent(w) ==
  /\ proc = "running"
  /\ CanAppend(1)
  /\ devfile' = Appended(devfile, 1, w)
  /\ traced' = Count(traced, 1)
  /\ lastOp' = [NoOp EXCEPT !.op = "trace", !.out = "returned"]
  /\ UNCHANGED <<exec, codec, detect, flag_coverage, is_kernel_64_bit, cover_size, mmap_alloc_size, cov,
                 current_cover, proc, tpc, loop_i, owner, lastEnabled>>

(***************************************************************************)
(* doexit                                                                  *)
(***************************************************************************)
\* doexit(status) up to its loop: syscall(__NR_exit_group, status) ends the
\* process, or returns when the request is blocked and the loop is entered
\* with i = 0.
doexit(t, status, blocked) ==
  /\ Running(t)
  /\ proc' = IF blocked THEN proc ELSE "exited"
  /\ tpc' = IF blocked THEN [tpc EXCEPT ![t] = "loop"] ELSE tpc
  /\ loop_i' = IF blocked THEN [loop_i EXCEPT ![t] = 0] ELSE loop_i
  /\ lastOp' = Op("doexit", t, NoCover, NoCover, FALSE,
                  IF blocked THEN "loop" ELSE "exited", "")
  /\ UNCHANGED <<exec, codec, detect, flag_coverage, is_kernel_64_bit, cover_size, mmap_alloc_size, devfile,
                 cov, current_cover, traced, owner, lastEnabled>>

\* A loop that ends when i wraps to 0 and returns to doexit's caller.
doexit_loop_returns(t) ==
  /\ proc = "running"
  /\ tpc[t] = "loop"
  /\ loop_i' = [loop_i EXCEPT ![t] = (loop_i[t] + 1) % LoopMod]
  /\ tpc' = IF loop_i'[t] = 0 THEN [tpc EXCEPT ![t] = "run"] ELSE tpc
  /\ lastOp' = Op("loop", t, NoCover, NoCover, FALSE, "loop", "")
  /\ UNCHANGED <<exec, codec, detect, flag_coverage, is_kernel_64_bit, cover_size,
                 mmap_alloc_size, devfile, cov, current_cover, proc, traced, owner,
                 lastEnabled>>

\* One iteration of for (i = 0;; i++) {}.
doexit_loop(t) ==
  /\ proc = "running"
  /\ tpc[t] = "loop"
  /\ loop_i' = [loop_i EXCEPT ![t] = (loop_i[t] + 1) % LoopMod]
  /\ lastOp' = Op("loop", t, NoCover, NoCover, FALSE, "loop", "")
  /\ UNCHANGED <<exec, codec, detect, flag_coverage, is_kernel_64_bit, cover_size, mmap_alloc_size, devfile,
                 cov, current_cover, proc, tpc, traced, owner, lastEnabled>>

\* The environment's choices that cover_open consults in the current state:
\* whether fopen creates a missing file, the run of /root/cov, whether mmap
\* succeeds, and the outcome of undefined behaviour where it is met.
OpenEnvs ==
  {[create |-> TRUE, sys |-> sys, mmapok |-> TRUE, ub |-> "continue"] :
     sys \in SystemEnvs}
  \cup {[create |-> TRUE, sys |-> sys, mmapok |-> FALSE, ub |-> ub] :
          sys \in {e \in SystemEnvs : e.rc = 0}, ub \in UBOutcomes}
  \cup {[create |-> FALSE, sys |-> sys, mmapok |-> TRUE, ub |-> ub] :
          sys \in {e \in SystemEnvs : e.rc = 0 /\ e.app = 0 /\ ~devfile.exists},
          ub \in UBOutcomes}

\* The environment's choices that cover_collect consults in the current state.
CollectEnvs ==
  {[fopenok |-> TRUE, ub |-> "continue", garbage |-> 0] : x \in {y \in {0} : devfile.exists}}
  \cup {[fopenok |-> FALSE, ub |-> "crash", garbage |-> 0]}
  \cup {[fopenok |-> FALSE, ub |-> "continue", garbage |-> g] : g \in 0..MaxRecords}

\* kFailStatus and a caller's status
ExitStatuses == {0, 67}

\* The coverage engine's operations; cover_open ignores its parameter extra,
\* and cover_enable uses collect_comps for its diagnostic only.
Next ==
  \/ \E t \in Threads, e \in OpenEnvs :
        cover_open(t, CoverOf[t], FALSE, e.create, e.sys, e.mmapok, e.ub)
  \/ \E t \in Threads, extra \in BOOLEAN, sys \in SystemEnvs :
        cover_enable(t, CoverOf[t], FALSE, extra, sys)
  \/ \E t \in Threads, explicit \in BOOLEAN, ub \in UBOutcomes :
        cover_reset(t, IF explicit THEN CoverOf[t] ELSE NoCover, ub)
  \/ \E t \in Threads, e \in CollectEnvs :
        cover_collect(t, CoverOf[t], e.fopenok, e.ub, e.garbage)
  \/ \E t \in Threads : cover_protect(t, CoverOf[t])
  \/ \E t \in Threads : cover_unprotect(t, CoverOf[t])
  \/ \E w \in 0..MaxWord : TraceEvent(w)

Spec == Init /\ [][Next]_vars

\* doexit may be invoked by any thread at any point of the above.
InitExit ==
  /\ flag_coverage = TRUE
  /\ is_kernel_64_bit = TRUE
  /\ InitEngine
  /\ exec = NoExec
  /\ codec = NoCodec
  /\ detect = NoDetect

NextExit ==
  \/ Next
  \/ \E t \in Threads, status \in ExitStatuses, blocked \in BOOLEAN :
        doexit(t, status, blocked)
  \/ \E t \in Threads : doexit_loop(t)

SpecExit == InitExit /\ [][NextExit]_vars

(***************************************************************************)
(* Properties of doexit, checked under SpecExit, and of the coverage       *)
(* engine, checked under Spec.                                             *)
(***************************************************************************)
\* The coverage and executor state doexit must leave alone.
CoverState == <<flag_coverage, is_kernel_64_bit, cover_size, mmap_alloc_size, devfile,
                cov, current_cover>>

\* The context a reset was asked to work on: its argument, or the calling
\* thread's active context.
ResetContext ==
  IF lastOp.c # NoCover THEN lastOp.c ELSE current_cover[lastOp.t]

Mapped(c) == c # NoCover /\ cov[c].data = "mapped"

\* The live entry counter at the head of an opened context's buffer: the first
\* word of the shared mapping of /dev/cov.
Counter(c) == devfile.word0

\* A reset that returned on an opened context.
ResetReturned ==
  /\ lastOp.op = "reset"
  /\ lastOp.out = "returned"
  /\ Mapped(ResetContext)

\* C1: once doexit is invoked control never returns to the caller: the
\* exit_group request ends the process (nothing runs after it), or the thread
\* stays in the busy loop, and no step of doexit touches the coverage or
\* executor state or takes the fail or exitf path.
C1_DoexitNeverReturns ==
  [][ /\ \A t \in Threads : tpc[t] = "loop" => tpc'[t] = "loop"
      /\ proc = "exited" => UNCHANGED vars
      /\ lastOp'.op \in {"doexit", "loop"} =>
            /\ CoverState' = CoverState
            /\ proc' \in {"running", "exited"}
            /\ tpc'[lastOp'.t] = "loop" \/ proc' = "exited"
            /\ \A u \in Threads \ {lastOp'.t} : tpc'[u] = tpc[u] ]_vars

\* C1 witness: exit_group was blocked, thread t1 has iterated in the loop
\* while thread t2 went on to open its context.
C1_Witness ==
  /\ tpc["t1"] = "loop"
  /\ loop_i["t1"] = 1
  /\ lastOp.op = "loop"
  /\ lastOp.t = "t1"
  /\ cov["c2"].data = "mapped"

\* C2 as stated: after open, whenever reset returns on the context (given, or
\* the thread's active one) its live entry counter reads 0.
C2_Original == ResetReturned => Counter(ResetContext) = 0

\* C2 amended: with whole-run coverage on, after open, whenever reset returns
\* on the context (given, or the thread's active one) its live entry counter
\* reads 0, whatever it held before.
C2_ResetZeroesCounter ==
  (flag_coverage /\ ResetReturned) => Counter(ResetContext) = 0

\* C2 witness: a reset through the active context returned and the counter
\* was not 0 before it.
C2_Witness ==
  /\ flag_coverage
  /\ ResetReturned
  /\ lastOp.c = NoCover
  /\ lastOp.preWord # 0

\* C3 as stated: reset with no context argument by a thread with no active
\* context fails fatally and writes to no buffer, for every value of the
\* whole-run coverage flag.
C3_Original ==
  (lastOp.op = "reset" /\ lastOp.c = NoCover /\ current_cover[lastOp.t] = NoCover)
    => (proc = "failed" /\ devfile.word0 = lastOp.preWord)

\* C3 amended: with whole-run coverage on, reset with no context argument by a
\* thread with no active context fails fatally (the process aborts with
\* cover_reset's diagnostic) and writes to no buffer.
C3_ResetWithoutContextFails ==
  (flag_coverage /\ lastOp.op = "reset" /\ lastOp.c = NoCover
     /\ current_cover[lastOp.t] = NoCover)
    => /\ proc = "failed"
       /\ lastOp.out = "fail"
       /\ lastOp.msg = "cover_reset: current_cover == 0"
       /\ devfile.word0 = lastOp.preWord

\* C3 witness: the fatal reset happened while another thread's opened buffer
\* held a non-zero counter.
C3_Witness ==
  /\ flag_coverage
  /\ lastOp.op = "reset"
  /\ lastOp.c = NoCover
  /\ current_cover[lastOp.t] = NoCover
  /\ proc = "failed"
  /\ \E c \in Covers : Mapped(c) /\ Counter(c) # 0

\* C4 as stated: after collect (with /dev/cov readable), collected_size is
\* the number of entries recorded since the context's last reset: N after N
\* trace events, 0 when nothing was traced after the reset.
C4_Original ==
  (lastOp.op = "collect" /\ lastOp.out = "returned" /\ lastOp.msg = ""
     /\ traced[lastOp.c] >= 0)
    => cov[lastOp.c].size = traced[lastOp.c]

\* The counter and the amount of entries seen through an opened context.
Buffer(c) ==
  IF Mapped(c) THEN [counter |-> Counter(c), bytes |-> devfile.bytes]
  ELSE [counter |-> 0, bytes |-> 0]

\* C5 as stated: for two contexts opened by different threads, a reset done
\* through one never changes the counter or the entries seen through the
\* other.
C5_Original ==
  [][ \A c, d \in Covers :
        (/\ c # d
         /\ owner[c] # "none" /\ owner[d] # "none" /\ owner[c] # owner[d]
         /\ lastOp'.op = "reset" /\ lastOp'.target = c)
        => Buffer(d)' = Buffer(d) ]_vars

\* C6: every thread's active-context slot is empty or holds the context of
\* that thread's last successful primary enable; a slot changes only in a
\* successful primary enable by its own thread, to the enabled context.
C6_ActiveSlot ==
  /\ [](\A t \in Threads : current_cover[t] = lastEnabled[t])
  /\ [][ \A t \in Threads :
           current_cover'[t] # current_cover[t] =>
             /\ lastOp'.op = "enable"
             /\ lastOp'.t = t
             /\ ~lastOp'.extra
             /\ lastOp'.out = "returned"
             /\ current_cover'[t] = lastOp'.c ]_vars

\* C6 witness: t1 holds its primary context; t2 opened, enabled as extra,
\* reset and collected on its context and its slot is still empty.
C6_Witness ==
  /\ current_cover["t1"] = "c1"
  /\ current_cover["t2"] = NoCover
  /\ lastOp.op = "enable"
  /\ lastOp.t = "t2"
  /\ lastOp.extra
  /\ lastOp.out = "returned"
  /\ cov["c2"].data = "mapped"

(***************************************************************************)
(* execute_syscall                                                         *)
(***************************************************************************)
EINVAL == 22
\* errno values a call may leave: none, EPERM, EINVAL, ENOSYS
Errnos == {0, 1, EINVAL, 38}
kMaxArgs == 9

\* Call descriptors: call (a custom invocation routine is set), sys_nr, name.
CallDescs == [call : BOOLEAN, sys_nr : {39, 157}, name : {"getpid", "prctl"}]

\* Argument arrays a[kMaxArgs] with slots told apart by their values.
ArgVectors == {[i \in 1..kMaxArgs |-> i], [i \in 1..kMaxArgs |-> 10 * i],
               [i \in 1..kMaxArgs |-> 0]}

\* What the invoked path does: its return value and the errno it leaves.
PathOutcomes == [res : {-1, 0, 5}, errno : Errnos]

\* execute_syscall without the prctl normalisation.
execute_syscall_no_normalisation(c, a, env) ==
  IF c.call
  THEN [invoked |-> <<[path |-> "call", nr |-> 0, args |-> a]>>,
        res |-> env.res, errno |-> env.errno]
  ELSE [invoked |-> <<[path |-> "syscall", nr |-> c.sys_nr, args |-> SubSeq(a, 1, 6)]>>,
        res |-> env.res, errno |-> env.errno]

\* execute_syscall normalising errno for every call name.
execute_syscall_any_name(c, a, env) ==
  IF c.call
  THEN [invoked |-> <<[path |-> "call", nr |-> 0, args |-> a]>>,
        res |-> env.res, errno |-> env.errno]
  ELSE [invoked |-> <<[path |-> "syscall", nr |-> c.sys_nr, args |-> SubSeq(a, 1, 6)]>>,
        res |-> env.res,
        errno |-> IF ~flag_coverage /\ env.res = -1 THEN EINVAL ELSE env.errno]

\* execute_syscall(c, a) where the invoked path ends as env: the invocations
\* made, the value returned and errno on return.
execute_syscall(c, a, env) ==
  IF c.call
  THEN [invoked |-> <<[path |-> "call", nr |-> 0, args |-> a]>>,
        res |-> env.res, errno |-> env.errno]
  ELSE [invoked |-> <<[path |-> "syscall", nr |-> c.sys_nr, args |-> SubSeq(a, 1, 6)]>>,
        res |-> env.res,
        errno |-> IF ~flag_coverage /\ env.res = -1 /\ c.name = "prctl"
                  THEN EINVAL ELSE env.errno]

ExecInputs == [stage : {"ready"}, c : CallDescs, a : ArgVectors]

InitExec ==
  /\ flag_coverage \in BOOLEAN
  /\ is_kernel_64_bit = TRUE
  /\ InitEngine
  /\ exec \in ExecInputs
  /\ codec = NoCodec
  /\ detect = NoDetect

\* One call of execute_syscall on the drawn descriptor and arguments.
ExecuteCall(env) ==
  /\ exec.stage = "ready"
  /\ exec' = [stage |-> "done", c |-> exec.c, a |-> exec.a, env |-> env,
              r |-> execute_syscall(exec.c, exec.a, env)]
  /\ UNCHANGED <<covVars, codec, detect>>

\* The interpreter hands over the next call.
NextCall(in) ==
  /\ exec.stage = "done"
  /\ exec' = in
  /\ UNCHANGED <<covVars, codec, detect>>

NextExec ==
  \/ \E env \in PathOutcomes : ExecuteCall(env)
  \/ \E in \in ExecInputs : NextCall(in)

SpecExec == InitExec /\ [][NextExec]_vars

(***************************************************************************)
(* Properties of execute_syscall, checked under SpecExec.                  *)
(***************************************************************************)
\* The call named "prctl" ended with -1 while whole-run coverage is disabled.
PrctlCase ==
  /\ exec.stage = "done"
  /\ ~flag_coverage
  /\ exec.c.name = "prctl"
  /\ exec.r.res = -1

\* C7 as stated: with whole-run coverage disabled, the call named "prctl"
\* and an outcome of -1, errno after execute_syscall is EINVAL, with a custom
\* routine or a raw call number alike.
C7_Original == PrctlCase => exec.r.errno = EINVAL

\* C7 amended: with whole-run coverage disabled, the call named "prctl" made
\* through its raw call number (the descriptor has no custom routine) and an
\* outcome of -1, errno after execute_syscall is EINVAL, whatever errno the
\* call left.
C7_PrctlErrno == (PrctlCase /\ ~exec.c.call) => exec.r.errno = EINVAL

\* C7 witness: the raw prctl call left ENOSYS and EINVAL is reported.
C7_Witness ==
  /\ PrctlCase
  /\ ~exec.c.call
  /\ exec.env.errno = 38
  /\ exec.r.errno = EINVAL

\* C8: execute_syscall makes exactly one invocation: the custom routine with
\* all nine slots when the descriptor has one, otherwise the raw call gate
\* with sys_nr and the first six slots; it returns that path's result, and
\* outside the prctl/-1/coverage-disabled case errno is as the path left it.
C8_OnePathPassThrough ==
  exec.stage = "done" =>
    /\ Len(exec.r.invoked) = 1
    /\ exec.c.call =>
         /\ exec.r.invoked[1].path = "call"
         /\ exec.r.invoked[1].args = exec.a
         /\ Len(exec.r.invoked[1].args) = 9
    /\ ~exec.c.call =>
         /\ exec.r.invoked[1].path = "syscall"
         /\ exec.r.invoked[1].nr = exec.c.sys_nr
         /\ Len(exec.r.invoked[1].args) = 6
         /\ \A i \in 1..6 : exec.r.invoked[1].args[i] = exec.a[i]
    /\ exec.r.res = exec.env.res
    /\ ~PrctlCase => exec.r.errno = exec.env.errno

\* C8 witness: a raw call other than prctl ended with -1 and ENOSYS while
\* coverage is disabled, with arguments in slots seven to nine.
C8_Witness ==
  /\ exec.stage = "done"
  /\ ~exec.c.call
  /\ ~flag_coverage
  /\ exec.c.name = "getpid"
  /\ exec.r.res = -1
  /\ exec.r.errno = 38
  /\ exec.a[7] # 0

(***************************************************************************)
(* kcov_remote_handle                                                      *)
(*                                                                         *)
(* A __u64 is the set of the positions of its set bits (bit 0 the lowest): *)
(* & is intersection, | is union, ~ is the complement in 0..63.            *)
(***************************************************************************)
Bits64 == 0..63
BitAnd(x, y) == x \cap y
BitOr(x, y) == x \cup y
BitNot(x) == Bits64 \ x
\* x << n and x >> n on 64 bits
Shl(x, n) == {b + n : b \in {k \in x : k + n <= 63}}
Shr(x, n) == {b - n : b \in {k \in x : k >= n}}

\* 0xffull << 56
KCOV_SUBSYSTEM_MASK == Shl(0..7, 56)
\* 0xffffffffull
KCOV_INSTANCE_MASK == 0..31
\* 0x00ull << 56 and 0x01ull << 56
KCOV_SUBSYSTEM_COMMON == Shl({}, 56)
KCOV_SUBSYSTEM_USB == Shl({0}, 56)

\* kcov_remote_handle without its validity check.
kcov_remote_handle_unchecked(subsys, inst) == BitOr(subsys, inst)

\* kcov_remote_handle returning the subsystem alone.
kcov_remote_handle_drops_instance(subsys, inst) ==
  IF BitAnd(subsys, BitNot(KCOV_SUBSYSTEM_MASK)) # {}
     \/ BitAnd(inst, BitNot(KCOV_INSTANCE_MASK)) # {}
  THEN {}
  ELSE subsys

\* kcov_remote_handle checking its instance argument only.
kcov_remote_handle_instance_only(subsys, inst) ==
  IF BitAnd(inst, BitNot(KCOV_INSTANCE_MASK)) # {}
  THEN {}
  ELSE BitOr(subsys, inst)

kcov_remote_handle(subsys, inst) ==
  IF BitAnd(subsys, BitNot(KCOV_SUBSYSTEM_MASK)) # {}
     \/ BitAnd(inst, BitNot(KCOV_INSTANCE_MASK)) # {}
  THEN {}
  ELSE BitOr(subsys, inst)

\* Subsystem arguments: 0, 1, 2, 255, 256, 1 << 55, 1 << 56 (USB), 2 << 56,
\* 0xff << 56, (1 << 56) | 1, (1 << 56) | 256, 1 << 63.
SubsystemArgs ==
  {{}, {0}, {1}, 0..7, {8}, {55}, {56}, {57}, 56..63, {0, 56}, {8, 56}, {63}}

\* Instance arguments: 0, 1, 2, 0x80000000, 0xffffffff, 1 << 32,
\* (1 << 32) | 1, 1 << 56, 1 << 63.
InstanceArgs == {{}, {0}, {1}, {31}, 0..31, {32}, {0, 32}, {56}, {63}}

CodecInputs == [stage : {"ready"}, subsys : SubsystemArgs, inst : InstanceArgs]

InitCodec ==
  /\ flag_coverage = TRUE
  /\ is_kernel_64_bit = TRUE
  /\ InitEngine
  /\ devfile.exists
  /\ exec = NoExec
  /\ codec \in CodecInputs
  /\ detect = NoDetect

\* One call of kcov_remote_handle on the drawn arguments.
Encode ==
  /\ codec.stage = "ready"
  /\ codec' = [stage |-> "done", subsys |-> codec.subsys, inst |-> codec.inst,
               handle |-> kcov_remote_handle(codec.subsys, codec.inst)]
  /\ UNCHANGED <<covVars, exec, detect>>

NextCodec == Encode

SpecCodec == InitCodec /\ [][NextCodec]_vars

(***************************************************************************)
(* Properties of kcov_remote_handle, checked under SpecCodec.              *)
(***************************************************************************)
\* x < 256 and x < 2^32
Below256(x) == x \subseteq 0..7
Below2p32(x) == x \subseteq 0..31
\* decode: the top byte and the low 32 bits of a handle
TopByte(h) == Shr(h, 56)
Low32(h) == BitAnd(h, 0..31)

\* C9 as stated: for subsystem < 256 and instance < 2^32,
\* encode(subsystem, instance) is (subsystem << 56) | instance.
C9_Original ==
  (codec.stage = "done" /\ Below256(codec.subsys) /\ Below2p32(codec.inst))
    => codec.handle = BitOr(Shl(codec.subsys, 56), codec.inst)

\* C9 amended: for every subsystem id s < 256 and instance < 2^32,
\* encode(s << 56, instance) is (s << 56) | instance, and the top byte and the
\* low 32 bits of the result give back (s, instance); encode takes the
\* subsystem already shifted into the top byte.
C9_EncodeRoundTrip ==
  \A s \in {x \in SubsystemArgs : Below256(x)} :
    (codec.stage = "done" /\ codec.subsys = Shl(s, 56) /\ Below2p32(codec.inst))
      => /\ codec.handle = BitOr(Shl(s, 56), codec.inst)
         /\ TopByte(codec.handle) = s
         /\ Low32(codec.handle) = codec.inst

\* C9 witness: encode(1 << 56, 0xffffffff) gave (1 << 56) | 0xffffffff.
C9_Witness ==
  /\ codec.stage = "done"
  /\ codec.subsys = Shl({0}, 56)
  /\ codec.inst = 0..31
  /\ codec.handle = {56} \cup (0..31)

\* C10 as stated: encode returns 0 whenever subsystem >= 256 or
\* instance >= 2^32.
C10_Original ==
  (codec.stage = "done" /\ (~Below256(codec.subsys) \/ ~Below2p32(codec.inst)))
    => codec.handle = {}

\* C10 amended: encode returns 0 whenever instance >= 2^32, or
\* subsystem >= 256 with a bit set below bit 56.
C10_EncodeRejects ==
  (/\ codec.stage = "done"
   /\ \/ ~Below2p32(codec.inst)
      \/ ~Below256(codec.subsys) /\ BitAnd(codec.subsys, 0..55) # {})
    => codec.handle = {}

\* C10 witness: encode(256, 0) gave 0.
C10_Witness ==
  /\ codec.stage = "done"
  /\ codec.subsys = {8}
  /\ codec.inst = {}
  /\ codec.handle = {}

\* C11: encode returns 0 whenever its subsystem argument has a bit set outside
\* bits 56..63 or its instance argument has a bit set outside the low 32 bits;
\* for every other pair the handle's top byte is the subsystem's top byte, its
\* low 32 bits are the instance and its bits 32..55 are all zero.
C11_EncodeValidity ==
  codec.stage = "done" =>
    IF BitAnd(codec.subsys, 0..55) # {} \/ BitAnd(codec.inst, 32..63) # {}
    THEN codec.handle = {}
    ELSE /\ TopByte(codec.handle) = TopByte(codec.subsys)
         /\ Low32(codec.handle) = codec.inst
         /\ BitAnd(codec.handle, 32..55) = {}

\* C11 witness: encode(0xff << 56, 0x80000000) gave (0xff << 56) | 0x80000000.
C11_Witness ==
  /\ codec.stage = "done"
  /\ codec.subsys = 56..63
  /\ codec.inst = {31}
  /\ codec.handle = (56..63) \cup {31}

(***************************************************************************)
(* Properties of cover_open, checked under Spec.                           *)
(***************************************************************************)
\* A cover_open that returned to its caller.
OpenReturned == lastOp.op = "open" /\ lastOp.out = "returned"

\* The width of one buffer entry for the detected kernel.
EntryWidth == IF is_kernel_64_bit THEN 8 ELSE 4

\* C12 as stated: after a successful open, buffer_end - buffer equals
\* capacity times the entry width (8 bytes on a 64-bit kernel, 4 on a 32-bit
\* one) and equals the length of the region that was mapped.
C12_Original ==
  OpenReturned =>
    /\ cov[lastOp.c].data_end = cover_size * EntryWidth
    /\ cov[lastOp.c].data_end = cov[lastOp.c].maplen

\* A cover_open whose mmap returned MAP_FAILED.
OpenMmapFailed == lastOp.op = "open" /\ cov[lastOp.c].data = "MAP_FAILED"

\* C13 as stated: if the mapping cannot be established, open ends in the
\* fatal failure with its mmap diagnostic, and buffer_end is not recorded.
C13_Original ==
  OpenMmapFailed =>
    /\ lastOp.out = "fail"
    /\ lastOp.msg = "cover mmap failed"
    /\ cov[lastOp.c].data_end = 0

(***************************************************************************)
(* Properties of cover_enable, checked under Spec.                         *)
(***************************************************************************)
\* C14: a failed enable is a soft failure: when /root/cov rejects the enable,
\* for a primary or an extra context, the failure goes through exitf, never
\* through fail (the process keeps running), and the calling thread's
\* active-context slot keeps the value it had before the call.
C14_SoftEnableFailure ==
  [][(lastOp'.op = "enable" /\ lastOp'.rejected)
       => /\ lastOp'.out = "exitf"
          /\ proc' = proc
          /\ current_cover' = current_cover]_vars

\* C14 witness: an extra enable was rejected on a thread whose primary context
\* was active, and the slot still names it.
C14_Witness ==
  /\ lastOp.op = "enable"
  /\ lastOp.rejected
  /\ lastOp.extra
  /\ lastOp.out = "exitf"
  /\ current_cover[lastOp.t] = CoverOf[lastOp.t]

\* An enable of an extra context that returned to its caller.
ExtraEnableReturned ==
  lastOp.op = "enable" /\ lastOp.extra /\ lastOp.out = "returned"

\* C15 as stated: enabling an extra context registers a remote handle set with
\* the coverage device: a common handle and one USB-subsystem handle, both
\* encoding the same non-zero instance id.
C15_Original ==
  ExtraEnableReturned =>
    \E inst \in {x \in InstanceArgs : Below2p32(x) /\ x # {}} :
      lastOp.registered = {kcov_remote_handle(KCOV_SUBSYSTEM_COMMON, inst),
                           kcov_remote_handle(KCOV_SUBSYSTEM_USB, inst)}

(***************************************************************************)
(* detect_kernel_bitness, and the assignment os_init makes of its result   *)
(***************************************************************************)
\* char buf[16]
BufSize == 16

\* sizeof(void *) of the executor's build
PointerWidths == {4, 8}

\* The first 16 bytes of /proc/kallsyms: "c1000000 T _text",
\* "00000000<tab>T start", "ffffffff81000000", "0000000000000000",
\* "c100000 T _stext".
KallsymsPrefixes ==
  {<<"c", "1", "0", "0", "0", "0", "0", "0", " ", "T", " ", "_", "t", "e", "x", "t">>,
   <<"0", "0", "0", "0", "0", "0", "0", "0", "\t", "T", " ", "s", "t", "a", "r", "t">>,
   <<"f", "f", "f", "f", "f", "f", "f", "f", "8", "1", "0", "0", "0", "0", "0", "0">>,
   <<"0", "0", "0", "0", "0", "0", "0", "0", "0", "0", "0", "0", "0", "0", "0", "0">>,
   <<"c", "1", "0", "0", "0", "0", "0", " ", "T", " ", "_", "s", "t", "e", "x", "t">>}

\* What read(fd, buf, sizeof(buf)) returns: an error, end of file, short
\* reads, the full buffer.
ReadResults == {-1, 0, 8, 9, 15, BufSize}

\* detect_kernel_bitness accepting a space only.
detect_kernel_bitness_space_only(ptrsize, openok, nread, content) ==
  IF ptrsize = 8 THEN [wide |-> TRUE, called_open |-> FALSE]
  ELSE IF ~openok THEN [wide |-> TRUE, called_open |-> TRUE]
  ELSE LET buf == SubSeq(content, 1, IF nread > 0 THEN nread ELSE 0)
       IN  [wide |-> ~(nread = BufSize /\ buf[9] = " "), called_open |-> TRUE]

\* detect_kernel_bitness in a build with pointers of ptrsize bytes: openok,
\* open("/proc/kallsyms") succeeds; nread, the result of read, which filled
\* buf with the first nread bytes of content.  buf[8] in the code is buf[9]
\* here (sequences start at 1).
detect_kernel_bitness(ptrsize, openok, nread, content) ==
  IF ptrsize = 8 THEN [wide |-> TRUE, called_open |-> FALSE]
  ELSE IF ~openok THEN [wide |-> TRUE, called_open |-> TRUE]
  ELSE LET buf == SubSeq(content, 1, IF nread > 0 THEN nread ELSE 0)
       IN  [wide |-> ~(nread = BufSize /\ (buf[9] = " " \/ buf[9] = "\t")),
            called_open |-> TRUE]

BitnessInputs ==
  [stage : {"ready"}, ptrsize : PointerWidths, openok : BOOLEAN,
   nread : ReadResults, content : KallsymsPrefixes]

InitBitness ==
  /\ flag_coverage = TRUE
  /\ is_kernel_64_bit = FALSE
  /\ InitEngine
  /\ devfile.exists
  /\ exec = NoExec
  /\ codec = NoCodec
  /\ detect \in BitnessInputs

\* os_init: is_kernel_64_bit = detect_kernel_bitness();
DetectBitness ==
  /\ detect.stage = "ready"
  /\ LET r == detect_kernel_bitness(detect.ptrsize, detect.openok, detect.nread,
                                     detect.content)
     IN  /\ detect' = [detect EXCEPT !.stage = "done"] @@
                         [wide |-> r.wide, called_open |-> r.called_open]
         /\ is_kernel_64_bit' = r.wide
  /\ UNCHANGED <<exec, codec, flag_coverage, cover_size, mmap_alloc_size, devfile, cov,
                 current_cover, proc, tpc, loop_i, lastOp, traced, owner, lastEnabled>>

NextBitness == DetectBitness

SpecBitness == InitBitness /\ [][NextBitness]_vars

\* C16: detect_kernel_bitness returns 64-bit without opening the symbol table
\* whenever the executor's pointer width is 8; otherwise it returns 32-bit
\* exactly when the full 16-byte prefix of the symbol table was read and the
\* byte at index 8 is a space or a tab, and 64-bit in every other case,
\* including a failed open and a short read.
C16_DetectBitness ==
  detect.stage = "done" =>
    IF detect.ptrsize = 8
    THEN detect.wide /\ ~detect.called_open /\ is_kernel_64_bit
    ELSE /\ ~detect.wide <=> (/\ detect.openok
                              /\ detect.nread = 16
                              /\ detect.content[9] \in {" ", "\t"})
         /\ is_kernel_64_bit = detect.wide

\* C16 witness: a 32-bit build read "00000000<tab>T start" in full and
\* returned 32-bit.
C16_Witness ==
  /\ detect.stage = "done"
  /\ detect.ptrsize = 4
  /\ detect.openok
  /\ detect.nread = 16
  /\ detect.content[9] = "\t"
  /\ ~detect.wide

(***************************************************************************)
(* Frame properties of the coverage engine, checked under Spec.            *)
(***************************************************************************)
\* C17: collected_size of a context changes only in collect: open, enable,
\* reset, protect and unprotect leave every context's size unchanged; and
\* collect changes nothing else, leaving the live entry counter, the buffer
\* entries, the active-context slots and the contexts' enabled state as they
\* were.
C17_CollectedSizeFrame ==
  [][/\ lastOp'.op \in {"open", "enable", "reset", "protect", "unprotect"}
          => \A c \in Covers : cov'[c].size = cov[c].size
     /\ lastOp'.op = "collect"
          => /\ devfile' = devfile
             /\ current_cover' = current_cover
             /\ lastEnabled' = lastEnabled
             /\ \A c \in Covers : /\ cov'[c].data = cov[c].data
                                  /\ cov'[c].data_end = cov[c].data_end
                                  /\ c # lastOp'.c => cov'[c].size = cov[c].size]_vars

\* C17 witness: a collect on an enabled context set its size to one record,
\* and the counter at the head of the buffer still holds a non-zero value.
C17_Witness ==
  /\ lastOp.op = "collect"
  /\ lastOp.out = "returned"
  /\ cov[lastOp.c].size = 1
  /\ current_cover[lastOp.t] = lastOp.c
  /\ Counter(lastOp.c) = 1

(***************************************************************************)
(* The layout of kcov_remote_arg<kernel_u64_t, N>                          *)
(***************************************************************************)
\* sizeof(unsigned) and sizeof(uint64)
SizeofUnsigned == 4
SizeofUint64 == 8

\* x rounded up to a multiple of a
AlignUp(x, a) == ((x + a - 1) \div a) * a

\* The alignment of kernel_u64_t: aligned(8), or packed, aligned(4).
kernel_u64_align(kernel_u64_t) == IF kernel_u64_t = "uint64_aligned64" THEN 8 ELSE 4

\* The members of kcov_remote_arg<kernel_u64_t, N> in declaration order.
kcov_remote_arg(kernel_u64_t, N) ==
  <<[name |-> "trace_mode", size |-> SizeofUnsigned, align |-> SizeofUnsigned],
    [name |-> "area_size", size |-> SizeofUnsigned, align |-> SizeofUnsigned],
    [name |-> "num_handles", size |-> SizeofUnsigned, align |-> SizeofUnsigned],
    [name |-> "common_handle", size |-> SizeofUint64,
     align |-> kernel_u64_align(kernel_u64_t)],
    [name |-> "handles", size |-> N * SizeofUint64,
     align |-> kernel_u64_align(kernel_u64_t)]>>

\* The offset of member i of a structure: each member starts at the first
\* multiple of its alignment after the end of the one before it.
RECURSIVE OffsetOf(_, _)
OffsetOf(members, i) ==
  IF i = 1 THEN 0
  ELSE AlignUp(OffsetOf(members, i - 1) + members[i - 1].size, members[i].align)

RECURSIVE MaxAlign(_, _)
MaxAlign(members, i) ==
  IF i = 0 THEN 1
  ELSE LET m == MaxAlign(members, i - 1)
       IN  IF members[i].align > m THEN members[i].align ELSE m

\* sizeof: the end of the last member rounded up to the largest alignment.
SizeOf(members) ==
  AlignUp(OffsetOf(members, Len(members)) + members[Len(members)].size,
          MaxAlign(members, Len(members)))

\* An enable of an extra context, whatever its outcome.
ExtraEnable == lastOp.op = "enable" /\ lastOp.extra

\* C18: kcov_remote_arg32 (no extra handles) occupies exactly 20 bytes, three
\* 4-byte fields followed by the 4-byte-aligned 8-byte common handle at offset
\* 12; kcov_remote_arg64 occupies exactly 24 bytes, its common handle aligned
\* to 8 at offset 16; and the layout a remote enable is instantiated with is
\* the wide one exactly when the detected kernel is 64-bit.
C18_ControlLayout ==
  /\ SizeOf(kcov_remote_arg("uint64_aligned32", 0)) = 20
  /\ OffsetOf(kcov_remote_arg("uint64_aligned32", 0), 4) = 12
  /\ SizeOf(kcov_remote_arg("uint64_aligned64", 0)) = 24
  /\ OffsetOf(kcov_remote_arg("uint64_aligned64", 0), 4) = 16
  /\ ExtraEnable =>
       /\ lastOp.layout \in {"uint64_aligned32", "uint64_aligned64"}
       /\ lastOp.layout = "uint64_aligned64" <=> is_kernel_64_bit

\* C18 witness: on a 32-bit kernel an extra enable ran with the narrow layout.
C18_Witness ==
  /\ ExtraEnable
  /\ ~is_kernel_64_bit
  /\ lastOp.layout = "uint64_aligned32"
  /\ lastOp.out = "returned"

\* C19: when flag_coverage is off, cover_reset is a no-op for every argument
\* and every state: it returns without failing, writes the counter of no
\* buffer, and neither consults nor changes the thread's active-context slot,
\* even when called with no context while no context is active.
C19_ResetNoOpWhenFlagOff ==
  [][(lastOp'.op = "reset" /\ ~flag_coverage)
       => /\ lastOp'.out = "returned"
          /\ lastOp'.target = NoCover
          /\ proc' = proc
          /\ tpc' = tpc
          /\ devfile' = devfile
          /\ cov' = cov
          /\ current_cover' = current_cover]_vars

\* C19 witness: with the flag off, a reset with no context and no active
\* context returned, and the counter still holds a non-zero value.
C19_Witness ==
  /\ ~flag_coverage
  /\ lastOp.op = "reset"
  /\ lastOp.c = NoCover
  /\ current_cover[lastOp.t] = NoCover
  /\ lastOp.out = "returned"
  /\ devfile.word0 = 1

====
